---- MODULE Spec2Model ----
(***************************************************************************)
(* A model of Bfabric.py (Brocade zoning command generator) and of the     *)
(* WWID formatter wwidfmt.py.                                              *)
(*                                                                         *)
(* A Python string is a sequence of one-character strings; characters are  *)
(* ordered by their code point (Ord), as Python's string comparison does.  *)
(* A row of all_fab is the 6-element list                                  *)
(*   [node, primaryif, subif, fabric, initgt, wwpn]                        *)
(* (Python index k is TLA+ index k+1).                                     *)
(***************************************************************************)
EXTENDS Integers, Sequences, FiniteSets, TLC

VARIABLES
    \* ---- run configuration and pipeline state of Bfabric.py ----
    strict,          \* "S" or "L": identifier policy          (line 201-215)
    cabchk,          \* "Y" or "N": fabric/cable check          (line 219-235)
    all_fab,         \* list of rows read from the input file   (line 244)
    pc,              \* position of the script
    vi,              \* index of the row the validation loop is at
    errors_found,    \* line 243
    wwidct,          \* line 245
    dupname_error,   \* line 372
    dupnam_error,    \* line 383 (a second name, assigned on a duplicate)
    printed,         \* the error messages printed so far, in order
    files,           \* the output files that exist, each a sequence of lines
    INI_list,        \* line 465
    TGT_list,        \* line 466
    ii,              \* position of the outer loop of section 4 (line 516)
    ti,              \* position of the inner loop of section 4 (line 520)
    last_ininode,    \* line 507
    last_iniprime,   \* line 508
    last_tgtnode,    \* line 509
    cfga_count,      \* line 511
    cfgb_count,      \* line 512
    aliact,          \* line 433
    alibct,          \* line 434
    exit_status,     \* "none" while running, then "0" or "1"
    \* ---- the identifier functions applied to one input string ----
    wwid,            \* the input string
    edits,           \* number of edits made to the input string
    results          \* results of the identifier functions, once applied

vars == <<strict, cabchk, all_fab, pc, vi, errors_found, wwidct, dupname_error,
          dupnam_error, printed, files, INI_list, TGT_list, ii, ti,
          last_ininode, last_iniprime, last_tgtnode, cfga_count, cfgb_count,
          aliact, alibct, exit_status, wwid, edits, results>>

pipevars == <<strict, cabchk, all_fab, pc, vi, errors_found, wwidct,
              dupname_error, dupnam_error, printed, files, INI_list, TGT_list,
              ii, ti, last_ininode, last_iniprime, last_tgtnode, cfga_count,
              cfgb_count, aliact, alibct, exit_status>>

idvars == <<wwid, edits, results>>

-----------------------------------------------------------------------------
(* Characters and strings *)

\* The printable ASCII characters in code-point order, from 32 (space). The
\* grave accent (96) keeps its place under a name, as it cannot be written
\* in a string here.
Printable ==
    <<" ", "!", "\"", "#", "$", "%", "&", "'", "(", ")", "*", "+", ",", "-", ".", "/",
      "0", "1", "2", "3", "4", "5", "6", "7", "8", "9", ":", ";", "<", "=", ">", "?",
      "@", "A", "B", "C", "D", "E", "F", "G", "H", "I", "J", "K", "L", "M", "N", "O",
      "P", "Q", "R", "S", "T", "U", "V", "W", "X", "Y", "Z", "[", "\\", "]", "^", "_",
      "(grave)", "a", "b", "c", "d", "e", "f", "g", "h", "i", "j", "k", "l", "m", "n", "o",
      "p", "q", "r", "s", "t", "u", "v", "w", "x", "y", "z", "{", "|", "}", "~">>

CharSet == {Printable[i] : i \in 1..Len(Printable)}

\* Code point of a character: the table of ord() on CharSet.
RECURSIVE OrdTable(_)
OrdTable(n) == IF n = 0 THEN <<>> ELSE (Printable[n] :> (31 + n)) @@ OrdTable(n - 1)

Ord == OrdTable(Len(Printable))

\* str.lower() of one character.
Lower(c) == IF Ord[c] >= Ord["A"] /\ Ord[c] <= Ord["Z"]
            THEN Printable[Ord[c] + 32 - 31]
            ELSE c

\* Python's s < t on strings: lexicographic by code point, a proper prefix first.
RECURSIVE StrLessFrom(_, _, _)
StrLessFrom(s, t, k) ==
    IF k > Len(t) THEN FALSE
    ELSE IF k > Len(s) THEN TRUE
    ELSE IF s[k] = t[k] THEN StrLessFrom(s, t, k + 1)
    ELSE Ord[s[k]] < Ord[t[k]]

StrLess(s, t) == StrLessFrom(s, t, 1)

\* Python's s[a:b] for 0 <= a <= b.
Slice(s, a, b) == SubSeq(s, a + 1, IF b > Len(s) THEN Len(s) ELSE b)

\* Python's None, as returned by strictwwid and loosewwid.
None == <<"None">>

-----------------------------------------------------------------------------
(* Identifier functions *)

\* strictwwid: None if the data is invalid, the WWID if it is valid.
strictwwid(w) ==
    IF Len(w) # 23 THEN None
    ELSE IF Slice(w, 2, 3) # <<":">> /\ Slice(w, 5, 6) # <<":">>
            /\ Slice(w, 8, 9) # <<":">> /\ Slice(w, 11, 12) # <<":">>
            /\ Slice(w, 14, 15) # <<":">> /\ Slice(w, 17, 18) # <<":">>
            /\ Slice(w, 20, 21) # <<":">>
    THEN None
    ELSE LET hexwid == Slice(w, 0, 2) \o Slice(w, 3, 5) \o Slice(w, 6, 8)
                       \o Slice(w, 9, 11) \o Slice(w, 12, 14) \o Slice(w, 15, 17)
                       \o Slice(w, 18, 20) \o Slice(w, 21, 23)
         IN IF \E k \in 1..Len(hexwid) :
                   \/ (Ord[hexwid[k]] < Ord["0"] \/ Ord[hexwid[k]] > Ord["f"])
                   \/ (Ord[hexwid[k]] > Ord["9"] /\ Ord[hexwid[k]] < Ord["a"])
            THEN None
            ELSE w

\* The character loop of loosewwid and of wwidfmt: lower-case each character
\* and keep it when it is 0-9 or a-f.
RECURSIVE HexLoop(_, _, _)
HexLoop(s, k, hexstring) ==
    IF k > Len(s) THEN hexstring
    ELSE LET userchar == Lower(s[k])
         IN IF \/ (Ord[userchar] >= Ord["0"] /\ Ord[userchar] <= Ord["9"])
               \/ (Ord[userchar] >= Ord["a"] /\ Ord[userchar] <= Ord["f"])
            THEN HexLoop(s, k + 1, hexstring \o <<userchar>>)
            ELSE HexLoop(s, k + 1, hexstring)

\* Brocade format: 2 characters with a colon separator.
brocadefmt(hexstring) ==
    Slice(hexstring, 0, 2) \o <<":">> \o Slice(hexstring, 2, 4) \o <<":">>
    \o Slice(hexstring, 4, 6) \o <<":">> \o Slice(hexstring, 6, 8) \o <<":">>
    \o Slice(hexstring, 8, 10) \o <<":">> \o Slice(hexstring, 10, 12) \o <<":">>
    \o Slice(hexstring, 12, 14) \o <<":">> \o Slice(hexstring, 14, 16)

loosewwid_nolower(w) ==
    \* the loop without the case fold: upper-case hex letters are dropped
    LET hexstring == SelectSeq(w, LAMBDA c :
                        \/ (Ord[c] >= Ord["0"] /\ Ord[c] <= Ord["9"])
                        \/ (Ord[c] >= Ord["a"] /\ Ord[c] <= Ord["f"]))
    IN IF Len(hexstring) # 16 THEN None ELSE brocadefmt(hexstring)

\* loosewwid: None if the data is invalid, else the WWID in Brocade format.
loosewwid(w) ==
    LET hexstring == HexLoop(w, 1, <<>>)
    IN IF Len(hexstring) # 16 THEN None ELSE brocadefmt(hexstring)

\* wwidfmt.py: the Brocade format it prints and copies, or None when it
\* prints "Input string does not contain 16 hex characters".
wwidfmt(userstring) ==
    LET hexstring == HexLoop(userstring, 1, <<>>)
    IN IF Len(hexstring) # 16 THEN None ELSE brocadefmt(hexstring)

-----------------------------------------------------------------------------
(* Bfabric.py: naming and sorting *)

\* alias_format: the alias name of a row.
alias_format(linelist) ==
    LET ali1 == <<"a", "l", "i", "_">> \o linelist[1]
        ali2 == IF linelist[2] # <<>> THEN ali1 \o <<"_">> \o linelist[2] ELSE ali1
        ali3 == IF linelist[3] # <<>> THEN ali2 \o <<"_">> \o linelist[3] ELSE ali2
    IN ali3 \o <<"_", "F">> \o linelist[4]

\* "{:<10}".format(s): s left-justified in a field of 10, never truncated.
Pad10(s) == IF Len(s) >= 10 THEN s ELSE s \o [k \in 1..(10 - Len(s)) |-> " "]

\* list.sort(key=...): a stable sort by Python's string order on the keys,
\* here by insertion over <<key, row>> pairs.
RECURSIVE InsertSorted(_, _)
InsertSorted(sorted, p) ==
    IF sorted = <<>> THEN <<p>>
    ELSE IF StrLess(p[1], Head(sorted)[1]) THEN <<p>> \o sorted
    ELSE <<Head(sorted)>> \o InsertSorted(Tail(sorted), p)

RECURSIVE SortPairs(_, _, _)
SortPairs(list, keys, n) ==
    IF n = 0 THEN <<>>
    ELSE InsertSorted(SortPairs(list, keys, n - 1), <<keys[n], list[n]>>)

\* keys[k] is the value of the key function on list[k].
ListSort(list, keys) ==
    LET s == SortPairs(list, keys, Len(list))
    IN [k \in 1..Len(s) |-> s[k][2]]

sort_WWPN(swwpn) == swwpn[6]

sort_cabkeys(cabval) ==
    Pad10(cabval[1]) \o Pad10(cabval[2]) \o Pad10(cabval[3]) \o cabval[6]

sort_ALIif(salitgt) == salitgt[1] \o salitgt[2] \o salitgt[3]

sort_ITif(sinitgt) == sinitgt[5] \o sinitgt[1] \o sinitgt[2] \o sinitgt[3]

-----------------------------------------------------------------------------
(* Bfabric.py: messages and output lines *)

\* A printed error message: its fixed text, the string printed with it and
\* the rows printed with it.
Msg(msg, text, rows) == [msg |-> msg, text |-> text, rows |-> rows]

\* A line of an output file: cmd "<name>", "<member>"; a comment or framing
\* line has only cmd.
Line(cmd, name, member) == [cmd |-> cmd, name |-> name, member |-> member]

TextLine(text) == Line(text, <<>>, <<>>)

\* "cfg" + today's date (the date is the same all through a run).
cfgname == <<"c", "f", "g", "2", "0", "2", "0", "-", "0", "6", "-", "2", "7">>

FileNames == {"Afab_ali.txt", "Bfab_ali.txt", "Afab_zon.txt", "Bfab_zon.txt",
              "Afab_cfg.txt", "Bfab_cfg.txt"}

\* No output file exists.
NoFiles == [f \in {} |-> <<>>]

\* open(name, "w") followed by the writes of `lines`.
Create(fs, name, lines) == (name :> lines) @@ fs

\* file.write of `lines` to an open file.
Write(fs, name, lines) == [fs EXCEPT ![name] = @ \o lines]

-----------------------------------------------------------------------------
(* Bfabric.py: the validation loop and the loops of sections 2a, 2b and of   *)
(* the cable check.  Each takes and returns the script variables it assigns. *)

\* The validation loop without its continue statements: every check of the
\* row is run and reported.
RowCheck_all(rec, st) ==
    LET fabric == rec[4]
        initgt == rec[5]
        wwidok == IF strict = "S" THEN strictwwid(rec[6]) ELSE loosewwid(rec[6])
        wwpn == IF strict = "S" \/ wwidok = None THEN rec[6] ELSE wwidok
        m1 == IF wwidok = None THEN <<Msg("WWID invalid", rec[6], <<>>)>> ELSE <<>>
        m2 == IF initgt # <<"I">> /\ initgt # <<"T">>
              THEN <<Msg("Invalid Initiator/Target value - must be I or T", wwpn, <<>>)>>
              ELSE <<>>
        m3 == IF fabric # <<"A">> /\ fabric # <<"B">>
              THEN <<Msg("Fabric identifier must be A or B", wwpn, <<>>)>>
              ELSE <<>>
        all == m1 \o m2 \o m3
    IN IF all = <<>>
       THEN [st EXCEPT !.wwidct = @ + 1]
       ELSE [st EXCEPT !.printed = @ \o all, !.errors_found = TRUE]

\* One pass of the validation loop (lines 299-333) over the row rec.
\* st = [printed, errors_found, wwidct].
RowCheck(rec, st) ==
    LET fabric == rec[4]
        initgt == rec[5]
        wwidok == IF strict = "S" THEN strictwwid(rec[6]) ELSE loosewwid(rec[6])
        \* line 318 assigns the loop's name wwpn, which only the messages read
        wwpn == IF strict = "S" THEN rec[6] ELSE wwidok
    IN IF wwidok = None
       THEN [st EXCEPT !.printed = Append(@, Msg("WWID invalid", rec[6], <<>>)),
                       !.errors_found = TRUE]
       ELSE IF initgt # <<"I">> /\ initgt # <<"T">>
       THEN [st EXCEPT !.printed = Append(@,
                           Msg("Invalid Initiator/Target value - must be I or T",
                               wwpn, <<>>)),
                       !.errors_found = TRUE]
       ELSE IF fabric # <<"A">> /\ fabric # <<"B">>
       THEN [st EXCEPT !.printed = Append(@,
                           Msg("Fabric identifier must be A or B", wwpn, <<>>)),
                       !.errors_found = TRUE]
       ELSE [st EXCEPT !.wwidct = @ + 1]

\* Section 2a: the duplicate wwpn loop over the sorted list.
\* st = [printed, errors_found].
RECURSIVE DupWwpnLoop(_, _, _, _)
DupWwpnLoop(rows, k, last_wwpn, st) ==
    IF k > Len(rows) THEN st
    ELSE LET dr_wwpn == rows[k][6]
         IN IF dr_wwpn # last_wwpn
            THEN DupWwpnLoop(rows, k + 1, dr_wwpn, st)
            ELSE DupWwpnLoop(rows, k + 1, last_wwpn,
                     [st EXCEPT !.printed = Append(@,
                                    Msg("Duplicate wwpn found", dr_wwpn, <<>>)),
                                !.errors_found = TRUE])

\* Section 2b: the duplicate name loop over the sorted list.
\* st = [printed, errors_found, dupnam_error].
RECURSIVE DupNameLoop(_, _, _, _, _, _)
DupNameLoop(rows, k, prv_node, prv_iface, prv_subif, st) ==
    IF k > Len(rows) THEN st
    ELSE LET devrow == rows[k]
             out == IF devrow[1] = prv_node /\ devrow[2] = prv_iface
                       /\ devrow[3] = prv_subif
                    THEN [st EXCEPT !.printed = Append(@,
                                        Msg("Duplicate name found",
                                            devrow[1] \o <<" ">> \o devrow[2]
                                            \o <<" ">> \o devrow[3], <<>>)),
                                    !.errors_found = TRUE,
                                    !.dupnam_error = TRUE]
                    ELSE st
         IN DupNameLoop(rows, k + 1, devrow[1], devrow[2], devrow[3], out)

\* The cable check as a warning only: the loop prints but leaves errors_found.
RECURSIVE CableLoop_soft(_, _, _, _, _)
CableLoop_soft(rows, k, fabriccmp, last_devrow, st) ==
    IF k > Len(rows) THEN st
    ELSE LET devrow == rows[k]
             fabric == devrow[4]
             out == IF fabric = fabriccmp
                    THEN [st EXCEPT !.printed = Append(@,
                                        Msg("Possible cable misconfiguration detected",
                                            <<>>, <<last_devrow, devrow>>))]
                    ELSE st
         IN CableLoop_soft(rows, k + 1, fabric, devrow, out)

\* The cable check with fabriccmp never updated.
RECURSIVE CableLoop_stale(_, _, _, _, _)
CableLoop_stale(rows, k, fabriccmp, last_devrow, st) ==
    IF k > Len(rows) THEN st
    ELSE LET devrow == rows[k]
             fabric == devrow[4]
             out == IF fabric = fabriccmp
                    THEN [st EXCEPT !.printed = Append(@,
                                        Msg("Possible cable misconfiguration detected",
                                            <<>>, <<last_devrow, devrow>>)),
                                    !.errors_found = TRUE]
                    ELSE st
         IN CableLoop_stale(rows, k + 1, fabriccmp, devrow, out)

\* The cable check: the fabric alternation loop.
\* st = [printed, errors_found].
RECURSIVE CableLoop(_, _, _, _, _)
CableLoop(rows, k, fabriccmp, last_devrow, st) ==
    IF k > Len(rows) THEN st
    ELSE LET devrow == rows[k]
             fabric == devrow[4]
             out == IF fabric = fabriccmp
                    THEN [st EXCEPT !.printed = Append(@,
                                        Msg("Possible cable misconfiguration detected",
                                            <<>>, <<last_devrow, devrow>>)),
                                    !.errors_found = TRUE]
                    ELSE st
         IN CableLoop(rows, k + 1, fabric, devrow, out)

\* The alias loop with every line going to fabric A's file.
RECURSIVE AliasLoop_allA(_, _, _)
AliasLoop_allA(rows, k, st) ==
    IF k > Len(rows) THEN st
    ELSE LET devrow == rows[k]
             aliline == Line("aliCreate", alias_format(devrow), devrow[6])
         IN AliasLoop_allA(rows, k + 1,
                           [st EXCEPT !.a = Append(@, aliline), !.aliact = @ + 1])

\* Section 3: the alias loop.  st = [a, b, aliact, alibct], the lines written
\* to each fabric's alias file and the two counts.
RECURSIVE AliasLoop(_, _, _)
AliasLoop(rows, k, st) ==
    IF k > Len(rows) THEN st
    ELSE LET devrow == rows[k]
             aliname == alias_format(devrow)
             aliline == Line("aliCreate", aliname, devrow[6])
         IN IF devrow[4] = <<"A">>
            THEN AliasLoop(rows, k + 1,
                           [st EXCEPT !.a = Append(@, aliline), !.aliact = @ + 1])
            ELSE AliasLoop(rows, k + 1,
                           [st EXCEPT !.b = Append(@, aliline), !.alibct = @ + 1])

-----------------------------------------------------------------------------
(* Bfabric.py: section 4, one initiator/target pair *)

\* The pairing without the fabric test.
SameFabric_any(inirow, tgtrow) == TRUE

\* Line 522: the initiator and the target are in the same fabric.
SameFabric(inirow, tgtrow) == inirow[4] = tgtrow[4]

\* Line 528: the zone name from init node, init i/f and target node.
zoname(inirow, tgtrow) ==
    <<"z", "o", "n", "_">> \o inirow[1] \o <<"_">> \o inirow[2] \o <<"_">> \o tgtrow[1]

\* The zoneCreate/zoneAdd decision on the target node alone.
ZoneLines_tgtonly(inirow, tgtrow, l_ininode, l_iniprime, l_tgtnode) ==
    IF tgtrow[1] = l_tgtnode
    THEN <<Line("zoneAdd", zoname(inirow, tgtrow), alias_format(tgtrow))>>
    ELSE <<Line("zoneCreate", zoname(inirow, tgtrow), alias_format(inirow)),
           Line("zoneAdd", zoname(inirow, tgtrow), alias_format(tgtrow))>>

\* Lines 534-541: zonline alone (a zoneAdd) when nothing changed, else
\* zonline (a zoneCreate) and zonline2 (a zoneAdd).
ZoneLines(inirow, tgtrow, l_ininode, l_iniprime, l_tgtnode) ==
    LET inode == inirow[1]
        iprime == inirow[2]
        tnode == tgtrow[1]
        initali == alias_format(inirow)
        zonali == alias_format(tgtrow)
    IN IF inode = l_ininode /\ iprime = l_iniprime /\ tnode = l_tgtnode
       THEN <<Line("zoneAdd", zoname(inirow, tgtrow), zonali)>>
       ELSE <<Line("zoneCreate", zoname(inirow, tgtrow), initali),
              Line("zoneAdd", zoname(inirow, tgtrow), zonali)>>

\* The cfg line with the count tested as it was before its increment.
CfgLine_late(count, zn) ==
    IF count - 1 = 1 THEN Line("cfgCreate", cfgname, zn) ELSE Line("cfgAdd", cfgname, zn)

\* Lines 553-556 and 563-566: the cfg line for a fabric's count-th zoneCreate.
CfgLine(count, zn) ==
    IF count = 1 THEN Line("cfgCreate", cfgname, zn) ELSE Line("cfgAdd", cfgname, zn)

-----------------------------------------------------------------------------
(* Bfabric.py: the script, section by section *)

\* The validation loop, one row per step.
ValidateRow ==
    /\ pc = "validate" /\ vi <= Len(all_fab)
    /\ LET st == RowCheck(all_fab[vi], [printed |-> printed,
                                        errors_found |-> errors_found,
                                        wwidct |-> wwidct])
       IN /\ printed' = st.printed
          /\ errors_found' = st.errors_found
          /\ wwidct' = st.wwidct
    /\ vi' = vi + 1
    /\ UNCHANGED <<strict, cabchk, all_fab, pc, dupname_error, dupnam_error, files,
                   INI_list, TGT_list, ii, ti, last_ininode, last_iniprime,
                   last_tgtnode, cfga_count, cfgb_count, aliact, alibct,
                   exit_status, idvars>>

\* Section 2a (lines 339-351): sort on wwpn, report duplicate wwpns.
Section2a ==
    /\ pc = "validate" /\ vi > Len(all_fab)
    /\ LET sorted == ListSort(all_fab, [k \in DOMAIN all_fab |-> sort_WWPN(all_fab[k])])
           st == DupWwpnLoop(sorted, 1, <<>>, [printed |-> printed,
                                              errors_found |-> errors_found])
       IN /\ all_fab' = sorted
          /\ printed' = st.printed
          /\ errors_found' = st.errors_found
    /\ pc' = "section2b"
    /\ UNCHANGED <<strict, cabchk, vi, wwidct, dupname_error, dupnam_error, files,
                   INI_list, TGT_list, ii, ti, last_ininode, last_iniprime,
                   last_tgtnode, cfga_count, cfgb_count, aliact, alibct,
                   exit_status, idvars>>

\* Section 2b (lines 360-386): sort on the name columns and wwpn, report
\* duplicate names.  dupname_error is set False; a duplicate sets dupnam_error.
Section2b ==
    /\ pc = "section2b"
    /\ LET sorted == ListSort(all_fab, [k \in DOMAIN all_fab |-> sort_cabkeys(all_fab[k])])
           st == DupNameLoop(sorted, 1, <<" ">>, <<" ">>, <<" ">>,
                             [printed |-> printed, errors_found |-> errors_found,
                              dupnam_error |-> dupnam_error])
       IN /\ all_fab' = sorted
          /\ printed' = st.printed
          /\ errors_found' = st.errors_found
          /\ dupnam_error' = st.dupnam_error
    /\ dupname_error' = FALSE
    /\ pc' = "cabchk"
    /\ UNCHANGED <<strict, cabchk, vi, wwidct, files, INI_list, TGT_list, ii, ti,
                   last_ininode, last_iniprime, last_tgtnode, cfga_count,
                   cfgb_count, aliact, alibct, exit_status, idvars>>

\* Lines 392-404: the fabric alternation check, if requested.
CableCheck ==
    /\ pc = "cabchk"
    /\ LET st == IF cabchk = "Y" /\ ~dupname_error
                 THEN CableLoop(all_fab, 1, <<" ">>, <<>>,
                                [printed |-> printed, errors_found |-> errors_found])
                 ELSE [printed |-> printed, errors_found |-> errors_found]
       IN /\ printed' = st.printed
          /\ errors_found' = st.errors_found
    /\ pc' = "gate"
    /\ UNCHANGED <<strict, cabchk, all_fab, vi, wwidct, dupname_error, dupnam_error,
                   files, INI_list, TGT_list, ii, ti, last_ininode, last_iniprime,
                   last_tgtnode, cfga_count, cfgb_count, aliact, alibct,
                   exit_status, idvars>>

\* Lines 411-417: data errors found, output files NOT produced, exit(1).
Abort ==
    /\ pc = "gate" /\ errors_found
    /\ pc' = "exited" /\ exit_status' = "1"
    /\ UNCHANGED <<strict, cabchk, all_fab, vi, errors_found, wwidct, dupname_error,
                   dupnam_error, printed, files, INI_list, TGT_list, ii, ti,
                   last_ininode, last_iniprime, last_tgtnode, cfga_count,
                   cfgb_count, aliact, alibct, idvars>>

\* Section 3 (lines 423-453): sort on the names, write the alias files.
Section3 ==
    /\ pc = "gate" /\ ~errors_found
    /\ LET sorted == ListSort(all_fab, [k \in DOMAIN all_fab |-> sort_ALIif(all_fab[k])])
           hdrA == <<TextLine("# Alias create commands for fabric A")>>
           hdrB == <<TextLine("# Alias create commands for fabric B")>>
           st == AliasLoop(sorted, 1, [a |-> hdrA, b |-> hdrB,
                                       aliact |-> 0, alibct |-> 0])
       IN /\ all_fab' = sorted
          /\ files' = Create(Create(files, "Afab_ali.txt", st.a), "Bfab_ali.txt", st.b)
          /\ aliact' = st.aliact
          /\ alibct' = st.alibct
    /\ pc' = "split"
    /\ UNCHANGED <<strict, cabchk, vi, errors_found, wwidct, dupname_error,
                   dupnam_error, printed, INI_list, TGT_list, ii, ti, last_ininode,
                   last_iniprime, last_tgtnode, cfga_count, cfgb_count,
                   exit_status, idvars>>

\* Lines 459-512: sort into I/T order, split into INI_list and TGT_list, open
\* the zone and cfg files and set up the loop of section 4.
Section4Setup ==
    /\ pc = "split"
    /\ LET sorted == ListSort(all_fab, [k \in DOMAIN all_fab |-> sort_ITif(all_fab[k])])
       IN /\ all_fab' = sorted
          /\ INI_list' = SelectSeq(sorted, LAMBDA devrow : devrow[5] = <<"I">>)
          /\ TGT_list' = SelectSeq(sorted, LAMBDA devrow : devrow[5] # <<"I">>)
    /\ files' = Create(Create(Create(Create(files,
                   "Afab_zon.txt", <<TextLine("# Zone create commands for fabric A")>>),
                   "Bfab_zon.txt", <<TextLine("# Zone create commands for fabric B")>>),
                   "Afab_cfg.txt", <<TextLine("# Switch config commands for fabric A"),
                                     TextLine("cfgClear"), TextLine("cfgDisable")>>),
                   "Bfab_cfg.txt", <<TextLine("# Switch config commands for fabric B"),
                                     TextLine("cfgClear"), TextLine("cfgDisable")>>)
    /\ last_ininode' = None /\ last_iniprime' = None /\ last_tgtnode' = None
    /\ cfga_count' = 0 /\ cfgb_count' = 0
    /\ ii' = 1 /\ ti' = 1
    /\ pc' = "section4"
    /\ UNCHANGED <<strict, cabchk, vi, errors_found, wwidct, dupname_error,
                   dupnam_error, printed, aliact, alibct, exit_status, idvars>>

\* Lines 516-570: one pass of the inner loop, for the pair (INI_list[ii],
\* TGT_list[ti]).
ZonePair ==
    /\ pc = "section4" /\ ii <= Len(INI_list) /\ ti <= Len(TGT_list)
    /\ LET inirow == INI_list[ii]
           tgtrow == TGT_list[ti]
           zl == ZoneLines(inirow, tgtrow, last_ininode, last_iniprime, last_tgtnode)
           created == Len(zl) = 2     \* zonline2 is not None
       IN IF ~SameFabric(inirow, tgtrow)
          THEN UNCHANGED <<files, last_ininode, last_iniprime, last_tgtnode,
                           cfga_count, cfgb_count>>
          ELSE /\ IF inirow[4] = <<"A">>
                  THEN /\ cfga_count' = IF created THEN cfga_count + 1 ELSE cfga_count
                       /\ files' = IF created
                                   THEN Write(Write(files, "Afab_zon.txt", zl),
                                              "Afab_cfg.txt",
                                              <<CfgLine(cfga_count + 1,
                                                        zoname(inirow, tgtrow))>>)
                                   ELSE Write(files, "Afab_zon.txt", zl)
                       /\ UNCHANGED cfgb_count
                  ELSE /\ cfgb_count' = IF created THEN cfgb_count + 1 ELSE cfgb_count
                       /\ files' = IF created
                                   THEN Write(Write(files, "Bfab_zon.txt", zl),
                                              "Bfab_cfg.txt",
                                              <<CfgLine(cfgb_count + 1,
                                                        zoname(inirow, tgtrow))>>)
                                   ELSE Write(files, "Bfab_zon.txt", zl)
                       /\ UNCHANGED cfga_count
               /\ last_ininode' = inirow[1]
               /\ last_iniprime' = inirow[2]
               /\ last_tgtnode' = tgtrow[1]
    /\ IF ti < Len(TGT_list)
       THEN ti' = ti + 1 /\ ii' = ii
       ELSE ti' = 1 /\ ii' = ii + 1
    /\ UNCHANGED <<strict, cabchk, all_fab, pc, vi, errors_found, wwidct,
                   dupname_error, dupnam_error, printed, INI_list, TGT_list,
                   aliact, alibct, exit_status, idvars>>

\* Lines 572-597: the loops are over; cfgSave, close the files, end of script.
Finish ==
    /\ pc = "section4" /\ (ii > Len(INI_list) \/ Len(TGT_list) = 0)
    /\ files' = Write(Write(files, "Afab_cfg.txt", <<TextLine("cfgSave")>>),
                      "Bfab_cfg.txt", <<TextLine("cfgSave")>>)
    /\ pc' = "exited" /\ exit_status' = "0"
    /\ UNCHANGED <<strict, cabchk, all_fab, vi, errors_found, wwidct, dupname_error,
                   dupnam_error, printed, INI_list, TGT_list, ii, ti, last_ininode,
                   last_iniprime, last_tgtnode, cfga_count, cfgb_count, aliact,
                   alibct, idvars>>

Next ==
    \/ ValidateRow \/ Section2a \/ Section2b \/ CableCheck \/ Abort
    \/ Section3 \/ Section4Setup \/ ZonePair \/ Finish

-----------------------------------------------------------------------------
(* Inputs of the script: the rows read into all_fab (lines 247-291), already  *)
(* stripped and case-folded as the reading code leaves them.                  *)

MaxRows == 2
MaxZoneRows == 4

\* Index sequences of length <= n over 1..N that rise by at least gap.
RECURSIVE UpSeqs(_, _, _)
UpSeqs(N, n, gap) ==
    IF n = 0 THEN {<<>>}
    ELSE LET P == UpSeqs(N, n - 1, gap)
         IN P \cup {Append(q[1], q[2]) :
                      q \in {r \in P \X (1..N) :
                               /\ Len(r[1]) = n - 1
                               /\ (n = 1 \/ r[2] >= r[1][n - 1] + gap)}}

Reverse(s) == [k \in 1..Len(s) |-> s[Len(s) + 1 - k]]

\* The row lists that take their rows from pool in rising or in falling order
\* of the pool's index.
RowLists(pool, n, gap) ==
    LET U == UpSeqs(Len(pool), n, gap)
    IN {[k \in 1..Len(s) |-> pool[s[k]]] : s \in U \cup {Reverse(u) : u \in U}}

RECURSIVE SetToSeq(_)
SetToSeq(S) ==
    IF S = {} THEN <<>>
    ELSE LET x == CHOOSE y \in S : TRUE IN <<x>> \o SetToSeq(S \ {x})

\* Two WWPNs in Brocade format, the first one again without punctuation, and
\* a string that is no WWPN under either policy.
W1 == <<"1","0", ":", "0","0", ":", "0","0", ":", "0","0", ":",
        "c","9", ":", "2","b", ":", "4","f", ":", "a","1">>
W2 == <<"1","0", ":", "0","0", ":", "0","0", ":", "0","0", ":",
        "c","9", ":", "2","b", ":", "4","f", ":", "a","2">>
W1bare == <<"1","0","0","0","0","0","0","0","c","9","2","b","4","f","a","1">>
Wbad == <<"1","0", ":", "0","0">>

\* Rows for the validation sections: two names; every valid fabric and role
\* with every well-formed WWPN, and rows with one, two or three invalid fields.
ValNames == {<< <<"a">>, <<"p">>, <<>> >>, << <<"a", "b">>, <<>>, <<>> >>}

ValPool ==
    SetToSeq(
        {<<n[1], n[2], n[3], <<f>>, <<r>>, w>> :
            n \in ValNames, f \in {"A", "B"}, r \in {"I", "T"}, w \in {W1, W2, W1bare}}
        \cup {<<n[1], n[2], n[3], fr[1], fr[2], W1>> :
            n \in ValNames,
            fr \in {<< <<"C">>, <<"I">> >>, << <<"A">>, <<"X">> >>, << <<"C">>, <<"X">> >>}}
        \cup {<<n[1], n[2], n[3], fr[1], fr[2], Wbad>> :
            n \in ValNames,
            fr \in {<< <<"A">>, <<"I">> >>, << <<"A">>, <<"X">> >>, << <<"C">>, <<"X">> >>}})

\* The script's variables as its first lines leave them, before validation.
Start ==
    /\ pc = "validate" /\ vi = 1
    /\ errors_found = FALSE /\ wwidct = 0
    /\ dupname_error = FALSE /\ dupnam_error = FALSE
    /\ printed = <<>> /\ files = NoFiles
    /\ INI_list = <<>> /\ TGT_list = <<>> /\ ii = 1 /\ ti = 1
    /\ last_ininode = None /\ last_iniprime = None /\ last_tgtnode = None
    /\ cfga_count = 0 /\ cfgb_count = 0 /\ aliact = 0 /\ alibct = 0
    /\ exit_status = "none"
    /\ wwid = <<>> /\ edits = 0
    /\ results = [applied |-> FALSE, strict |-> None, loose |-> None, fmt |-> None]

Init ==
    /\ strict \in {"S", "L"}
    /\ cabchk \in {"Y", "N"}
    /\ all_fab \in RowLists(ValPool, MaxRows, 0)
    /\ Start

Spec == Init /\ [][Next]_vars

\* Rows for section 4: valid rows only, each with a WWPN of its own.  Five
\* initiator names (one with an underscore in its primary interface) and three
\* target names, each on fabric A and on fabric B.
HexDigits == <<"0","1","2","3","4","5","6","7","8","9","a","b","c","d","e","f">>

Serial(k) ==
    <<"1","0", ":", "0","0", ":", "0","0", ":", "0","0", ":",
      "c","9", ":", "2","b", ":", "4","f", ":">>
    \o <<HexDigits[(k \div 16) + 1], HexDigits[(k % 16) + 1]>>

IniNames == {<< <<"a">>, <<"p">>, <<>> >>, << <<"a">>, <<"p">>, <<"s">> >>,
             << <<"a">>, <<"q">>, <<>> >>, << <<"b">>, <<"p">>, <<>> >>,
             << <<"a">>, <<"p", "_", "s">>, <<>> >>}

TgtNames == {<< <<"t">>, <<"y">>, <<>> >>, << <<"t", "y">>, <<"a">>, <<>> >>,
             << <<"t">>, <<"z">>, <<>> >>}

ZonePool ==
    LET shapes == SetToSeq(
            {<<n[1], n[2], n[3], <<f>>, <<"I">> >> : n \in IniNames, f \in {"A", "B"}}
            \cup {<<n[1], n[2], n[3], <<f>>, <<"T">> >> : n \in TgtNames, f \in {"A", "B"}})
    IN [k \in 1..Len(shapes) |-> shapes[k] \o <<Serial(k)>>]

InitZone ==
    /\ strict = "S"
    /\ cabchk = "N"
    /\ all_fab \in RowLists(ZonePool, MaxZoneRows, 1)
    /\ Start

SpecZone == InitZone /\ [][Next]_vars

-----------------------------------------------------------------------------
(* The identifier functions on one input string.  The input is a well-formed *)
(* identifier changed by at most MaxEdits single-character edits.            *)

MaxEdits == 1

\* A WWID in Brocade format, and the same 16 hex characters unpunctuated.
BaseBrocade ==
    <<"1","0", ":", "0","0", ":", "0","9", ":", "a","f", ":",
      "c","9", ":", "2","b", ":", "e","d", ":", "f","1">>

BaseBare ==
    <<"1","0","0","0","0","9","a","f","c","9","2","b","e","d","f","1">>

\* The characters an edit may write: the two ends of 0-9 and of a-f, their
\* neighbours in code-point order, and upper-case letters.
EditChars == {"/", "0", "9", ":", "F", "G", "(grave)", "a", "f", "g"}

\* The state of the pipeline while only the identifier functions run.
PipeIdle ==
    /\ strict = "S" /\ cabchk = "N" /\ all_fab = <<>> /\ pc = "idle" /\ vi = 1
    /\ errors_found = FALSE /\ wwidct = 0
    /\ dupname_error = FALSE /\ dupnam_error = FALSE
    /\ printed = <<>> /\ files = NoFiles
    /\ INI_list = <<>> /\ TGT_list = <<>> /\ ii = 1 /\ ti = 1
    /\ last_ininode = None /\ last_iniprime = None /\ last_tgtnode = None
    /\ cfga_count = 0 /\ cfgb_count = 0 /\ aliact = 0 /\ alibct = 0
    /\ exit_status = "none"

NoResult == [applied |-> FALSE, strict |-> None, loose |-> None, fmt |-> None]

InitId ==
    /\ PipeIdle
    /\ wwid \in {BaseBrocade, BaseBare}
    /\ edits = 0
    /\ results = NoResult

EditReplace ==
    /\ pc = "idle" /\ ~results.applied /\ edits < MaxEdits
    /\ \E k \in 1..Len(wwid), c \in EditChars :
          /\ wwid[k] # c
          /\ wwid' = [wwid EXCEPT ![k] = c]
    /\ edits' = edits + 1
    /\ UNCHANGED <<results, pipevars>>

EditInsert ==
    /\ pc = "idle" /\ ~results.applied /\ edits < MaxEdits
    /\ \E k \in 0..Len(wwid), c \in EditChars :
          wwid' = SubSeq(wwid, 1, k) \o <<c>> \o SubSeq(wwid, k + 1, Len(wwid))
    /\ edits' = edits + 1
    /\ UNCHANGED <<results, pipevars>>

EditDelete ==
    /\ pc = "idle" /\ ~results.applied /\ edits < MaxEdits
    /\ \E k \in 1..Len(wwid) :
          wwid' = SubSeq(wwid, 1, k - 1) \o SubSeq(wwid, k + 1, Len(wwid))
    /\ edits' = edits + 1
    /\ UNCHANGED <<results, pipevars>>

\* The input string is given to strictwwid, to loosewwid and to wwidfmt.
Normalize ==
    /\ pc = "idle" /\ ~results.applied
    /\ results' = [applied |-> TRUE, strict |-> strictwwid(wwid),
                   loose |-> loosewwid(wwid), fmt |-> wwidfmt(wwid)]
    /\ UNCHANGED <<wwid, edits, pipevars>>

NextId == EditReplace \/ EditInsert \/ EditDelete \/ Normalize

SpecId == InitId /\ [][NextId]_vars

-----------------------------------------------------------------------------
(* Properties *)

\* The printed messages with the given fixed text.
Printed(msg) == SelectSeq(printed, LAMBDA m : m.msg = msg)

\* The validation sections are over (the cable check has run or was skipped).
Validated == pc \in {"gate", "exited", "split", "section4"}

\* The name columns of a row.
NameOf(r) == <<r[1], r[2], r[3]>>

\* The identifier of a row under the selected policy, None when invalid.
Normalized(w) == IF strict = "S" THEN strictwwid(w) ELSE loosewwid(w)

IsHexChar(c) == c \in {"0", "1", "2", "3", "4", "5", "6", "7", "8", "9",
                       "a", "b", "c", "d", "e", "f"}

\* C1: all-or-nothing emission.  Whenever at least one error message has been
\* printed, no output file exists, and a run that has ended after printing one
\* has exit status 1; a run ends with exit status 0 only with nothing printed,
\* and then all six files exist.
C1_AllOrNothing ==
    /\ (printed # <<>> => DOMAIN files = {})
    /\ (printed # <<>> /\ pc = "exited" => exit_status = "1")
    /\ (exit_status = "0" => printed = <<>> /\ DOMAIN files = FileNames)

\* A run whose only error is one alternation warning has ended with status 1
\* and without any file.
C1_Witness ==
    /\ pc = "exited" /\ exit_status = "1" /\ DOMAIN files = {}
    /\ Len(printed) = 1
    /\ printed[1].msg = "Possible cable misconfiguration detected"

\* The 23-character Brocade format: a colon at each of the 0-indexed positions
\* 2,5,8,11,14,17,20 and a hex digit at every other position.
IsBrocadeFormat(w) ==
    /\ Len(w) = 23
    /\ \A k \in 1..23 : IF k % 3 = 0 THEN w[k] = ":" ELSE IsHexChar(w[k])

\* C2: strictwwid returns its input unchanged if and only if the input is in
\* the 23-character Brocade format, and rejects every other input.
C2_StrictPolicy ==
    results.applied =>
        /\ (results.strict = wwid <=> IsBrocadeFormat(wwid))
        /\ (~IsBrocadeFormat(wwid) => results.strict = None)

\* The hex characters of a string, case-folded, in their order.
HexOf(w) == SelectSeq([k \in 1..Len(w) |-> Lower(w[k])], IsHexChar)

\* 16 hex digits as 8 colon-separated pairs.
ColonPairs(h) == [k \in 1..23 |-> IF k % 3 = 0 THEN ":" ELSE h[k - (k \div 3)]]

\* C3: loosewwid (and the same code in wwidfmt) succeeds if and only if the
\* input holds exactly 16 hex characters once the others are discarded, and
\* then returns them lower-cased, in order, as 8 colon-separated pairs.
C3_LoosePolicy ==
    results.applied =>
        LET h == HexOf(wwid)
        IN /\ (results.loose # None <=> Len(h) = 16)
           /\ (Len(h) = 16 => results.loose = ColonPairs(h))
           /\ (results.fmt # None <=> Len(h) = 16)
           /\ (Len(h) = 16 => results.fmt = ColonPairs(h))

\* loosewwid has accepted an input that holds a character that is no hex
\* digit, or an upper-case hex letter.
C3_Witness ==
    /\ results.applied /\ results.loose # None
    /\ \E k \in 1..Len(wwid) : ~IsHexChar(wwid[k]) /\ wwid[k] # ":"

\* Two rows that differ in their name columns and whose identifiers are valid
\* and normalize to the same value under the selected policy.
DupIdPairs ==
    {p \in (1..Len(all_fab)) \X (1..Len(all_fab)) :
        /\ p[1] < p[2]
        /\ NameOf(all_fab[p[1]]) # NameOf(all_fab[p[2]])
        /\ Normalized(all_fab[p[1]][6]) # None
        /\ Normalized(all_fab[p[1]][6]) = Normalized(all_fab[p[2]][6])}

\* C4: under either policy, once the duplicate check has run, two rows with
\* different names whose identifiers normalize to the same value have a
\* "Duplicate wwpn found" report (exactly one when they are the only two
\* rows), and no output file exists.
C4_DuplicateIdentifier ==
    (pc # "validate" /\ DupIdPairs # {}) =>
        /\ Len(Printed("Duplicate wwpn found")) >= 1
        /\ (Len(all_fab) = 2 => Len(Printed("Duplicate wwpn found")) = 1)
        /\ DOMAIN files = {}

\* Two rows with the same name columns and different identifiers.
DupNamePairs ==
    {p \in (1..Len(all_fab)) \X (1..Len(all_fab)) :
        /\ p[1] < p[2]
        /\ NameOf(all_fab[p[1]]) = NameOf(all_fab[p[2]])
        /\ all_fab[p[1]][6] # all_fab[p[2]][6]}

\* Every row passes the three per-row checks.
AllRowsValid ==
    \A k \in 1..Len(all_fab) :
        /\ Normalized(all_fab[k][6]) # None
        /\ all_fab[k][5] \in {<<"I">>, <<"T">>}
        /\ all_fab[k][4] \in {<<"A">>, <<"B">>}

\* C5: once the validation sections are over, two records with the same name
\* columns and different identifiers have a "Duplicate name found" report, and
\* a run with such a report has no alternation warning.
C5_DuplicateNameGatesCable ==
    (Validated /\ AllRowsValid) =>
        /\ (DupNamePairs # {} => Len(Printed("Duplicate name found")) >= 1)
        /\ (Len(Printed("Duplicate name found")) >= 1 =>
                Len(Printed("Possible cable misconfiguration detected")) = 0)

\* Order of the rows by name columns, then wwpn, compared column by column.
NameOrderLess(r1, r2) ==
    \/ StrLess(r1[1], r2[1])
    \/ (r1[1] = r2[1] /\ StrLess(r1[2], r2[2]))
    \/ (r1[1] = r2[1] /\ r1[2] = r2[2] /\ StrLess(r1[3], r2[3]))
    \/ (r1[1] = r2[1] /\ r1[2] = r2[2] /\ r1[3] = r2[3] /\ StrLess(r1[6], r2[6]))

RowSet == {all_fab[k] : k \in 1..Len(all_fab)}

\* r1 immediately precedes r2 in the name-sorted order of the rows.
NextInNameOrder(r1, r2) ==
    /\ NameOrderLess(r1, r2)
    /\ ~\E r3 \in RowSet : NameOrderLess(r1, r3) /\ NameOrderLess(r3, r2)

NoDupName ==
    \A j, k \in 1..Len(all_fab) : j # k => NameOf(all_fab[j]) # NameOf(all_fab[k])

\* C6: with the alternation check enabled and no duplicate name, an alternation
\* warning is printed (and errors_found set) if and only if some row has the
\* fabric of the row just before it in name-sorted order; with the check
\* disabled no warning is printed.
C6_Alternation ==
    Validated =>
        /\ (cabchk = "Y" /\ NoDupName =>
              /\ (Len(Printed("Possible cable misconfiguration detected")) >= 1
                  <=> \E r1, r2 \in RowSet : NextInNameOrder(r1, r2) /\ r1[4] = r2[4])
              /\ (Len(Printed("Possible cable misconfiguration detected")) >= 1
                  => errors_found))
        /\ (cabchk # "Y" => Len(Printed("Possible cable misconfiguration detected")) = 0)

\* Two rows valid in every field, with different names and identifiers, on the
\* same fabric: the check has warned, and nothing else was printed.
C6_Witness ==
    /\ Validated /\ cabchk = "Y" /\ NoDupName
    /\ Len(all_fab) >= 2
    /\ Len(printed) = Len(Printed("Possible cable misconfiguration detected"))
    /\ Len(printed) >= 1

\* The per-row checks a row violates, in the order the loop makes them.
Violated(rec) ==
    (IF Normalized(rec[6]) = None THEN <<"WWID invalid">> ELSE <<>>)
    \o (IF rec[5] \notin {<<"I">>, <<"T">>}
        THEN <<"Invalid Initiator/Target value - must be I or T">> ELSE <<>>)
    \o (IF rec[4] \notin {<<"A">>, <<"B">>}
        THEN <<"Fabric identifier must be A or B">> ELSE <<>>)

RECURSIVE SumViolated(_)
SumViolated(n) == IF n = 0 THEN 0 ELSE SumViolated(n - 1) + Len(Violated(all_fab[n]))

\* C10 as claimed: in the validation loop, the rows checked so far have
\* contributed one error message for each per-row check they violate.
C10_OneErrorPerViolatedCheck ==
    pc = "validate" => Len(printed) = SumViolated(vi - 1)

\* The messages of the rows checked so far when each row reports only the
\* first check it violates.
RECURSIVE FirstViolated(_)
FirstViolated(n) ==
    IF n = 0 THEN <<>>
    ELSE FirstViolated(n - 1)
         \o (IF Violated(all_fab[n]) = <<>> THEN <<>> ELSE <<Head(Violated(all_fab[n]))>>)

\* C10 amended: in the validation loop, every row checked so far has
\* contributed exactly one error message if it violates any per-row check, that
\* of the first check it violates in the order identifier, role, fabric, and
\* none otherwise (whatever the rows before it did); wwidct counts the rows
\* that violate none.
C10_FirstErrorPerRow ==
    pc = "validate" =>
        /\ [k \in 1..Len(printed) |-> printed[k].msg] = FirstViolated(vi - 1)
        /\ wwidct = Cardinality({k \in 1..(vi - 1) : Violated(all_fab[k]) = <<>>})
        /\ (errors_found <=> printed # <<>>)

\* The loop is over two rows: the first violates two checks or more, the
\* second violates one, and each has its one message.
C10_Witness ==
    /\ pc = "validate" /\ vi = 3 /\ Len(all_fab) = 2
    /\ Len(Violated(all_fab[1])) >= 2
    /\ Len(Violated(all_fab[2])) >= 1
    /\ Len(printed) = 2

-----------------------------------------------------------------------------
(* Properties of section 4 *)

ZonFile(f) == IF f = "A" THEN "Afab_zon.txt" ELSE "Bfab_zon.txt"
CfgFile(f) == IF f = "A" THEN "Afab_cfg.txt" ELSE "Bfab_cfg.txt"

\* Section 4 has opened its files.
InSection4 == pc = "section4" \/ (pc = "exited" /\ exit_status = "0")

\* The pairs <<initiator index, target index>> the loops have been through, in
\* the order of the loops (outer over INI_list, inner over TGT_list).
PairsDone ==
    LET nt == Len(TGT_list)
        n == IF nt = 0 THEN 0 ELSE (ii - 1) * nt + (ti - 1)
    IN [k \in 1..n |-> <<((k - 1) \div nt) + 1, ((k - 1) % nt) + 1>>]

\* Those of them whose initiator and target are on the same fabric.
EmittedPairs ==
    SelectSeq(PairsDone, LAMBDA p : INI_list[p[1]][4] = TGT_list[p[2]][4])

TripleOf(p) == <<INI_list[p[1]][1], INI_list[p[1]][2], TGT_list[p[2]][1]>>

\* The zone lines of the first n emitted pairs that go to fabric f, by the
\* rule: a zoneCreate seeded with the initiator's alias and a zoneAdd of the
\* target's alias when the pair is the first or its triple differs from that
\* of the pair emitted before it, else the zoneAdd alone.
RECURSIVE ZoneRule(_, _)
ZoneRule(f, n) ==
    IF n = 0 THEN <<>>
    ELSE LET p == EmittedPairs[n]
             ini == INI_list[p[1]]
             tgt == TGT_list[p[2]]
             zn == <<"z", "o", "n", "_">> \o ini[1] \o <<"_">> \o ini[2]
                   \o <<"_">> \o tgt[1]
             add == Line("zoneAdd", zn, alias_format(tgt))
             new == n = 1 \/ TripleOf(p) # TripleOf(EmittedPairs[n - 1])
         IN ZoneRule(f, n - 1)
            \o (IF ini[4] # <<f>> THEN <<>>
                ELSE IF new THEN <<Line("zoneCreate", zn, alias_format(ini)), add>>
                ELSE <<add>>)

\* C7: all through section 4, each fabric's zone file holds, after its
\* heading, exactly the lines the create/add rule gives for the same-fabric
\* pairs gone through so far.
C7_ZoneCreateAddRule ==
    InSection4 =>
        \A f \in {"A", "B"} :
            Tail(files[ZonFile(f)]) = ZoneRule(f, Len(EmittedPairs))

\* A run has ended in which a zone file holds two zoneCreate lines and a
\* zoneAdd that does not follow a zoneCreate.
C7_Witness ==
    /\ pc = "exited" /\ exit_status = "0"
    /\ \E f \in {"A", "B"} :
          LET z == files[ZonFile(f)]
          IN /\ Len(SelectSeq(z, LAMBDA l : l.cmd = "zoneCreate")) >= 2
             /\ \E k \in 2..Len(z) : z[k].cmd = "zoneAdd" /\ z[k - 1].cmd = "zoneAdd"

\* The alias names of the rows on fabric f.
AliasesOn(f) == {alias_format(all_fab[k]) : k \in {j \in 1..Len(all_fab) : all_fab[j][4] = <<f>>}}

\* C8: all through section 4, every alias named in a fabric's zone file is the
\* alias of a row on that fabric, the file has one zoneAdd for each same-fabric
\* pair of that fabric gone through so far and none for the others, a target's
\* alias is in it only if that fabric has an initiator, and the fabric's cfg
\* file names only zones of that fabric's zone file.
C8_NoCrossFabric ==
    InSection4 =>
        \A f \in {"A", "B"} :
            LET z == Tail(files[ZonFile(f)])
                c == SelectSeq(files[CfgFile(f)],
                               LAMBDA l : l.cmd \in {"cfgCreate", "cfgAdd"})
            IN /\ \A k \in 1..Len(z) : z[k].member \in AliasesOn(f)
               /\ Len(SelectSeq(z, LAMBDA l : l.cmd = "zoneAdd"))
                  = Len(SelectSeq(EmittedPairs, LAMBDA p : INI_list[p[1]][4] = <<f>>))
               /\ (\E k \in 1..Len(z), t \in 1..Len(TGT_list) :
                       z[k].member = alias_format(TGT_list[t]))
                  => (\E i \in 1..Len(INI_list) : INI_list[i][4] = <<f>>)
               /\ \A k \in 1..Len(c) : \E j \in 1..Len(z) : z[j].name = c[k].member

\* A run has ended that went through a cross-fabric pair and a same-fabric pair.
C8_Witness ==
    /\ pc = "exited" /\ exit_status = "0"
    /\ Len(EmittedPairs) >= 1
    /\ Len(EmittedPairs) < Len(PairsDone)
    /\ \E t \in 1..Len(TGT_list) :
          \A i \in 1..Len(INI_list) : INI_list[i][4] # TGT_list[t][4]

\* The cfgCreate and cfgAdd lines of a fabric's cfg file.
CfgEntries(f) ==
    SelectSeq(files[CfgFile(f)], LAMBDA l : l.cmd \in {"cfgCreate", "cfgAdd"})

\* C9: all through section 4, each fabric's cfg file holds one entry for each
\* zoneCreate of that fabric's zone file, in the same order and naming the same
\* zone; the first entry is a cfgCreate and every later one a cfgAdd.
C9_CfgTracksZoneCreate ==
    InSection4 =>
        \A f \in {"A", "B"} :
            LET zc == SelectSeq(files[ZonFile(f)], LAMBDA l : l.cmd = "zoneCreate")
                c == CfgEntries(f)
            IN /\ Len(c) = Len(zc)
               /\ \A k \in 1..Len(c) :
                     c[k] = Line(IF k = 1 THEN "cfgCreate" ELSE "cfgAdd",
                                 cfgname, zc[k].name)
               /\ files[CfgFile(f)] =
                     <<TextLine(IF f = "A" THEN "# Switch config commands for fabric A"
                                ELSE "# Switch config commands for fabric B"),
                       TextLine("cfgClear"), TextLine("cfgDisable")>>
                     \o c
                     \o (IF pc = "exited" THEN <<TextLine("cfgSave")>> ELSE <<>>)

\* A run has ended in which a fabric's cfg file has a cfgCreate and a cfgAdd,
\* and a pair of that fabric added a zoneAdd and no cfg entry.
C9_Witness ==
    /\ pc = "exited" /\ exit_status = "0"
    /\ \E f \in {"A", "B"} :
          /\ Len(CfgEntries(f)) >= 2
          /\ CfgEntries(f)[2].cmd = "cfgAdd"
          /\ Len(SelectSeq(EmittedPairs, LAMBDA p : INI_list[p[1]][4] = <<f>>))
             > Len(CfgEntries(f))

-----------------------------------------------------------------------------
(* Properties of section 3 *)

AliFile(f) == IF f = "A" THEN "Afab_ali.txt" ELSE "Bfab_ali.txt"

\* Section 3 has written the alias files.
AliasesWritten == {"Afab_ali.txt", "Bfab_ali.txt"} \subseteq DOMAIN files

\* The aliCreate lines of a fabric's alias file (the lines after its heading).
AliLines(f) == Tail(files[AliFile(f)])

\* C11: under the Loose policy, once the alias files are written, every row's
\* identifier is in the canonical colon-pair form of what was read, and that
\* form is the identifier written in each aliCreate line.
C11_NormalizedRecord ==
    (strict = "L" /\ AliasesWritten) =>
        /\ \A k \in 1..Len(all_fab) : all_fab[k][6] = loosewwid(all_fab[k][6])
        /\ \A f \in {"A", "B"} :
              \A k \in 1..Len(AliLines(f)) : IsBrocadeFormat(AliLines(f)[k].member)

\* The number of entries of a sequence that equal x.
Count(seq, x) == Cardinality({k \in 1..Len(seq) : seq[k] = x})

\* The rows on fabric f.
RowsOn(f) == {k \in 1..Len(all_fab) : all_fab[k][4] = <<f>>}

\* C12: once the alias files are written, every row has exactly one aliCreate
\* line, with its alias name and identifier, in the alias file of its own
\* fabric and none in the other; each file has as many aliCreate lines as there
\* are rows on its fabric, which is that fabric's count; the two counts add up
\* to the number of validated rows; no other file ever holds an aliCreate.
C12_AliasPerRecord ==
    AliasesWritten =>
        /\ \A k \in 1..Len(all_fab) :
              LET r == all_fab[k]
                  l == Line("aliCreate", alias_format(r), r[6])
              IN \A f \in {"A", "B"} :
                    Count(AliLines(f), l) = (IF r[4] = <<f>> THEN 1 ELSE 0)
        /\ Len(AliLines("A")) = Cardinality(RowsOn("A")) /\ aliact = Len(AliLines("A"))
        /\ Len(AliLines("B")) = Cardinality(RowsOn("B")) /\ alibct = Len(AliLines("B"))
        /\ aliact + alibct = wwidct /\ wwidct = Len(all_fab)
        /\ \A n \in DOMAIN files \ {"Afab_ali.txt", "Bfab_ali.txt"} :
              \A k \in 1..Len(files[n]) : files[n][k].cmd # "aliCreate"

\* A run has ended with one fabric's alias file holding one aliCreate and the
\* other's holding two or more.
C12_Witness ==
    /\ pc = "exited" /\ exit_status = "0"
    /\ \E f, g \in {"A", "B"} : Len(AliLines(f)) = 1 /\ Len(AliLines(g)) >= 2

\* Order of two rows by the tuple (node, primaryif, subif), compared column
\* by column.
TupleLess(r1, r2) ==
    \/ StrLess(r1[1], r2[1])
    \/ (r1[1] = r2[1] /\ StrLess(r1[2], r2[2]))
    \/ (r1[1] = r2[1] /\ r1[2] = r2[2] /\ StrLess(r1[3], r2[3]))

\* The rows whose aliCreate line is the given line.
RowsOfLine(l) ==
    {r \in RowSet : l = Line("aliCreate", alias_format(r), r[6])}

\* C13: in each fabric's alias file, of two aliCreate lines the one written
\* first is never that of the row whose (node, primaryif, subif) is the
\* greater, compared column by column.
C13_AliasOrder ==
    AliasesWritten =>
        \A f \in {"A", "B"} :
            \A j, k \in 1..Len(AliLines(f)) :
                j < k =>
                    \A r1 \in RowsOfLine(AliLines(f)[j]), r2 \in RowsOfLine(AliLines(f)[k]) :
                        ~TupleLess(r2, r1)

-----------------------------------------------------------------------------
(* Properties of the finished zone files *)

\* The run has ended with its files written.
Succeeded == pc = "exited" /\ exit_status = "0"

\* The zone lines of a fabric's zone file (the lines after its heading).
ZonLines(f) == Tail(files[ZonFile(f)])

\* C14: when a run has succeeded, for every initiator row and every target row
\* on the same fabric, that fabric's zone file has a zoneCreate of the zone
\* named after the initiator's node and primary interface and the target's
\* node, seeded with the initiator's alias, and a zoneAdd of the target's alias
\* to that zone.
C14_ZoneCoverage ==
    Succeeded =>
        \A i \in 1..Len(INI_list), t \in 1..Len(TGT_list) :
            INI_list[i][4] = TGT_list[t][4] =>
                LET f == INI_list[i][4][1]
                    zn == <<"z", "o", "n", "_">> \o INI_list[i][1] \o <<"_">>
                          \o INI_list[i][2] \o <<"_">> \o TGT_list[t][1]
                IN /\ Count(ZonLines(f),
                            Line("zoneCreate", zn, alias_format(INI_list[i]))) >= 1
                   /\ Count(ZonLines(f),
                            Line("zoneAdd", zn, alias_format(TGT_list[t]))) >= 1

\* C15: in each fabric's zone file, every zoneAdd to a zone comes after a
\* zoneCreate of that zone in the same file, at every step of section 4.
C15_AddAfterCreate ==
    InSection4 =>
        \A f \in {"A", "B"} :
            \A k \in 1..Len(ZonLines(f)) :
                ZonLines(f)[k].cmd = "zoneAdd" =>
                    \E j \in 1..(k - 1) :
                        /\ ZonLines(f)[j].cmd = "zoneCreate"
                        /\ ZonLines(f)[j].name = ZonLines(f)[k].name

\* C16: in each fabric's zone file no two zoneCreate lines name the same zone,
\* and in each fabric's cfg file no two entries name the same zone, at every
\* step of section 4.
C16_CreateOnce ==
    InSection4 =>
        \A f \in {"A", "B"} :
            /\ \A j, k \in 1..Len(ZonLines(f)) :
                  (/\ j < k
                   /\ ZonLines(f)[j].cmd = "zoneCreate"
                   /\ ZonLines(f)[k].cmd = "zoneCreate")
                  => ZonLines(f)[j].name # ZonLines(f)[k].name
            /\ \A j, k \in 1..Len(CfgEntries(f)) :
                  j < k => CfgEntries(f)[j].member # CfgEntries(f)[k].member

\* C17: once the alias files are written (the rows have passed validation, so
\* their name columns and their identifiers are all different), no fabric's
\* alias file holds two aliCreate lines with the same alias name.
C17_AliasUnique ==
    AliasesWritten =>
        \A f \in {"A", "B"} :
            \A j, k \in 1..Len(AliLines(f)) :
                j < k => AliLines(f)[j].name # AliLines(f)[k].name

====
